---- MODULE Spec2Model ----
(***************************************************************************)
(* Barnsley fern generator (barnsley_fern.py).                             *)
(*                                                                         *)
(* Numbers.  The program computes in float64; the model computes the same  *)
(* expressions in exact rational arithmetic.  Every coefficient of the     *)
(* program is a multiple of 0.01, so the point at index k is a multiple    *)
(* of 100^-k: x[k] and y[k] hold the numerator over Den(k) = 100^k.        *)
(* A draw of random.random() is held in thousandths (0.86 is 860).         *)
(*                                                                         *)
(* Callers.  mode = "main" is the script run (main(), lines 214-233);      *)
(* mode = "import" is a program that imports the module, calls             *)
(* barnsley_fern twice and may reseed or use the global random module      *)
(* between the calls.                                                      *)
(***************************************************************************)
EXTENDS Integers, Sequences, FiniteSets, TLC

\* ------------------------------------------------------------- bounds ---
\* largest num_points an importing caller passes
MaxN == 4
\* largest num_points of the script run (main passes 25000; abstracted)
MaxMainN == 3
\* draws other code takes from the global stream between two calls
MaxOther == 1

\* the global stream is followed for at most this many draws per seed
MaxStream == MaxN - 1

\* representative draws of random.random(), in thousandths: the bounds of
\* the four intervals, and values inside them
RVals == {0, 10, 500, 860, 930, 999}

MainInputs == 1..MaxMainN
ImportInputs == (0 - 1)..MaxN

None == "None"

\* nothing reported yet, nothing plotted yet
NoReport == [points |-> 0, width |-> 0, height |-> 0, small_width |-> 0, small_height |-> 0]

NoPlot == [x |-> << >>, y |-> << >>]

VARIABLES mode, pc, num_points, x, y, i, stream, rngPos, draws, rows,
          outs, hist, err, genCalls, otherDraws, report, plotted, saved,
          callPos

vars == <<mode, pc, num_points, x, y, i, stream, rngPos, draws, rows,
          outs, hist, err, genCalls, otherDraws, report, plotted, saved,
          callPos>>

\* ------------------------------------------------------------ helpers ---
Den(k) == 100 ^ k

Abs(v) == IF v < 0 THEN 0 - v ELSE v

SetMax(S) == CHOOSE m \in S : \A v \in S : v <= m

SetMin(S) == CHOOSE m \in S : \A v \in S : m <= v

\* np.zeros(n), n >= 0
ZerosOff(n) == [k \in 0..n |-> 0]

Zeros(n) == [k \in 0..(n - 1) |-> 0]

\* the start of range(1, num_points)
LoopStart == 1

\* range(1, num_points) is exhausted
LoopDoneOff(k, n) == k > n

LoopDone(k, n) == k >= n

\* the if / elif / elif / else chain on r
SelectLE(r) ==
    IF r < 10 THEN 1
    ELSE IF r <= 860 THEN 2
    ELSE IF r < 930 THEN 3
    ELSE 4

Select(r) ==
    IF r < 10 THEN 1
    ELSE IF r < 860 THEN 2
    ELSE IF r < 930 THEN 3
    ELSE 4

\* the assignments to x[i], y[i] of the branch `row`; px, py are the
\* numerators of the previous point over d = Den(i-1), the result is the
\* pair of numerators over 100 * d = Den(i)
TransformSign(row, px, py, d) ==
    CASE row = 1 -> <<0 * px + 0 * py + 0 * d, 0 * px + 25 * py + 0 * d>>
      [] row = 2 -> <<80 * px + 8 * py + 0 * d, (0 - 8) * px + 80 * py + 180 * d>>
      [] row = 3 -> <<30 * px + 35 * py + 0 * d, 35 * px + 30 * py + 180 * d>>
      [] row = 4 -> <<(0 - 25) * px + 35 * py + 0 * d, 35 * px + 30 * py + 60 * d>>

TransformBig(row, px, py, d) ==
    CASE row = 1 -> <<0 * px + 0 * py + 0 * d, 0 * px + 25 * py + 0 * d>>
      [] row = 2 -> <<80 * px + 8 * py + 0 * d, (0 - 8) * px + 80 * py + 180 * d>>
      [] row = 3 -> <<30 * px + (0 - 35) * py + 0 * d, 35 * px + 30 * py + 1800 * d>>
      [] row = 4 -> <<(0 - 25) * px + 35 * py + 0 * d, 35 * px + 30 * py + 60 * d>>

Transform(row, px, py, d) ==
    CASE row = 1 -> <<0 * px + 0 * py + 0 * d, 0 * px + 25 * py + 0 * d>>
      [] row = 2 -> <<80 * px + 8 * py + 0 * d, (0 - 8) * px + 80 * py + 180 * d>>
      [] row = 3 -> <<30 * px + (0 - 35) * py + 0 * d, 35 * px + 30 * py + 180 * d>>
      [] row = 4 -> <<(0 - 25) * px + 35 * py + 0 * d, 35 * px + 30 * py + 60 * d>>

\* the matrices as the comments of the four branches state them, in
\* hundredths
Table ==
    << [a |-> 0, b |-> 0, c |-> 0, d |-> 25, e |-> 0, f |-> 0],
       [a |-> 80, b |-> 8, c |-> 0 - 8, d |-> 80, e |-> 0, f |-> 180],
       [a |-> 30, b |-> 0 - 35, c |-> 35, d |-> 30, e |-> 0, f |-> 180],
       [a |-> 0 - 25, b |-> 35, c |-> 35, d |-> 30, e |-> 0, f |-> 60] >>

\* the upper bounds of the four branches, in thousandths; the last branch
\* is the else, bounded by the range [0, 1) of random.random()
Thresholds == <<10, 860, 930, 1000>>

\* random.random() on the global generator: the values the next draw can
\* have.  A value the seed has already produced at this position is
\* replayed; otherwise the value is not yet known.
DrawVals == IF rngPos < Len(stream) THEN {stream[rngPos + 1]} ELSE RVals

StreamAfter(r) == IF rngPos < Len(stream) THEN stream ELSE Append(stream, r)

\* random.random() is called once in an iteration of the loop
DrawsPerStepTwo == 1 + 1

DrawsPerStep == 1

\* draws a call with argument n takes
Needed(n) == IF n >= 1 THEN n - 1 ELSE 0

\* --------------------------------------------------------------- Init ---
Init ==
    /\ mode \in {"main", "import"}
    /\ pc = IF mode = "main" THEN "main_start" ELSE "idle"
    /\ num_points = 0
    /\ x = << >>
    /\ y = << >>
    /\ i = 0
    /\ stream = << >>
    /\ rngPos = 0
    /\ draws = << >>
    /\ rows = << >>
    /\ outs = << >>
    /\ hist = << >>
    /\ err = None
    /\ genCalls = 0
    /\ otherDraws = 0
    /\ report = NoReport
    /\ plotted = NoPlot
    /\ saved = FALSE
    /\ callPos = 0

\* ------------------------------------------------------------ callers ---
\* main, lines 216-222: num_points is set and barnsley_fern is called
MainCall ==
    /\ pc = "main_start"
    /\ \E n \in MainInputs : num_points' = n
    /\ pc' = "gen_init"
    /\ genCalls' = genCalls + 1
    /\ draws' = << >>
    /\ rows' = << >>
    /\ callPos' = rngPos
    /\ UNCHANGED <<mode, x, y, i, stream, rngPos, outs, hist, err,
                   otherDraws, report, plotted, saved>>

\* an importing caller calls barnsley_fern(n)
ImportCall ==
    /\ pc \in {"idle", "between"}
    /\ \E n \in ImportInputs :
          /\ rngPos + Needed(n) <= MaxStream
          /\ num_points' = n
    /\ pc' = "gen_init"
    /\ genCalls' = genCalls + 1
    /\ draws' = << >>
    /\ rows' = << >>
    /\ callPos' = rngPos
    /\ UNCHANGED <<mode, x, y, i, stream, rngPos, outs, hist, err,
                   otherDraws, report, plotted, saved>>

\* random.seed(s) with the seed the process started from
Reseed ==
    /\ pc = "between"
    /\ rngPos > 0
    /\ rngPos' = 0
    /\ UNCHANGED <<mode, pc, num_points, x, y, i, stream, draws, rows, outs,
                   hist, err, genCalls, otherDraws, report, plotted, saved,
                   callPos>>

\* other code calls random.random() between the two calls
OtherDraw ==
    /\ pc = "between"
    /\ otherDraws < MaxOther
    /\ rngPos < MaxStream
    /\ \E r \in DrawVals : stream' = StreamAfter(r)
    /\ rngPos' = rngPos + 1
    /\ otherDraws' = otherDraws + 1
    /\ UNCHANGED <<mode, pc, num_points, x, y, i, draws, rows, outs, hist,
                   err, genCalls, report, plotted, saved,
                   callPos>>

\* ---------------------------------------------------------- generator ---
\* the point written to x[0], y[0]
StartCarry ==
    IF outs = << >> THEN <<0, 0>>
    ELSE LET o == outs[Len(outs)]
             k == SetMax(DOMAIN o.x)
         IN  <<o.x[k] \div Den(k), o.y[k] \div Den(k)>>

StartPoint == <<0, 0>>

\* barnsley_fern, lines 31-35: the two arrays and the starting point.
\* np.zeros raises ValueError on a negative size; with size 0 the write of
\* x[0] raises IndexError.  Neither exception is caught anywhere.
GenInit ==
    /\ pc = "gen_init"
    /\ IF num_points < 0
         THEN /\ err' = "ValueError"
              /\ pc' = "raised"
              /\ UNCHANGED <<x, y, i>>
         ELSE IF num_points = 0
         THEN /\ x' = Zeros(0)
              /\ y' = Zeros(0)
              /\ err' = "IndexError"
              /\ pc' = "raised"
              /\ UNCHANGED i
         ELSE /\ x' = [Zeros(num_points) EXCEPT ![0] = StartPoint[1]]
              /\ y' = [Zeros(num_points) EXCEPT ![0] = StartPoint[2]]
              /\ i' = LoopStart
              /\ pc' = "gen_loop"
              /\ UNCHANGED err
    /\ UNCHANGED <<mode, num_points, stream, rngPos, draws, rows, outs, hist,
                   genCalls, otherDraws, report, plotted, saved,
                   callPos>>

\* barnsley_fern, lines 38-64: one iteration of the loop
LoopStep ==
    /\ pc = "gen_loop"
    /\ ~LoopDone(i, num_points)
    /\ \E r \in DrawVals :
          LET row == Select(r)
              p == Transform(row, x[i - 1], y[i - 1], Den(i - 1))
          IN  /\ x' = [x EXCEPT ![i] = p[1]]
              /\ y' = [y EXCEPT ![i] = p[2]]
              /\ stream' = StreamAfter(r)
              /\ draws' = Append(draws, r)
              /\ rows' = Append(rows, row)
    /\ rngPos' = rngPos + DrawsPerStep
    /\ i' = i + 1
    /\ UNCHANGED <<mode, pc, num_points, outs, hist, err, genCalls,
                   otherDraws, report, plotted, saved,
                   callPos>>

\* barnsley_fern, line 66: the arrays are returned to the caller
Return ==
    /\ pc = "gen_loop"
    /\ LoopDone(i, num_points)
    /\ outs' = Append(outs, [x |-> x, y |-> y])
    /\ hist' = Append(hist, [n |-> num_points, draws |-> draws, rows |-> rows])
    /\ pc' = IF mode = "main" THEN "main_info"
             ELSE IF outs = << >> THEN "between" ELSE "done"
    /\ UNCHANGED <<mode, num_points, x, y, i, stream, rngPos, draws, rows,
                   err, genCalls, otherDraws, report, plotted, saved,
                   callPos>>

\* ------------------------------------------------- report and renderer ---
\* a / b for a >= 0, b > 0, rounded to the nearest integer, ties to even
RoundDiv(a, b) ==
    LET q == a \div b
        m == a % b
    IN  IF 2 * m < b THEN q
        ELSE IF 2 * m > b THEN q + 1
        ELSE IF q % 2 = 0 THEN q ELSE q + 1

\* arr.max() - arr.min(), as a numerator over Den(n - 1)
Extent(arr) ==
    LET n == Cardinality(DOMAIN arr)
        S == {arr[k] * Den(n - 1 - k) : k \in DOMAIN arr}
    IN  SetMax(S) - SetMin(S)

\* print_fractal_info, lines 201-212: the count and the four sizes, each
\* size formatted with two decimals (held in hundredths)
PrintInfo ==
    /\ pc = "main_info"
    /\ LET mx == outs[1].x
           my == outs[1].y
           n == Cardinality(DOMAIN mx)
       IN  report' = [points |-> n,
                      width |-> RoundDiv(100 * Extent(mx), Den(n - 1)),
                      height |-> RoundDiv(100 * Extent(my), Den(n - 1)),
                      small_width |-> RoundDiv(15 * Extent(mx), Den(n - 1)),
                      small_height |-> RoundDiv(15 * Extent(my), Den(n - 1))]
    /\ pc' = "main_viz"
    /\ UNCHANGED <<mode, num_points, x, y, i, stream, rngPos, draws, rows,
                   outs, hist, err, genCalls, otherDraws, plotted, saved,
                   callPos>>

\* visualize_fern(x, y, save_plot=True), lines 73-199: the arrays handed to
\* plt.scatter are x * 0.15 + 1.5 and y * 0.15 + 0.5 (numerators over
\* Den(k + 1)); plt.savefig writes the image or raises OSError, which
\* nothing catches
VisualizeInPlace ==
    /\ pc = "main_viz"
    /\ LET mx == outs[1].x
           my == outs[1].y
           sx == [k \in DOMAIN mx |-> 15 * mx[k] + 150 * Den(k)]
           sy == [k \in DOMAIN my |-> 15 * my[k] + 50 * Den(k)]
       IN  /\ plotted' = [x |-> sx, y |-> sy]
           /\ outs' = [outs EXCEPT ![1] = [x |-> sx, y |-> sy]]
    /\ \E ok \in BOOLEAN :
          IF ok
            THEN saved' = TRUE /\ pc' = "main_end" /\ UNCHANGED err
            ELSE err' = "OSError" /\ pc' = "raised" /\ UNCHANGED saved
    /\ UNCHANGED <<mode, num_points, x, y, i, stream, rngPos, draws, rows,
                   hist, genCalls, otherDraws, report,
                   callPos>>

VisualizeRetry ==
    /\ pc = "main_viz"
    /\ LET mx == outs[1].x
           my == outs[1].y
       IN  plotted' = [x |-> [k \in DOMAIN mx |-> 15 * mx[k] + 150 * Den(k)],
                       y |-> [k \in DOMAIN my |-> 15 * my[k] + 50 * Den(k)]]
    /\ \E ok \in BOOLEAN :
          IF ok
            THEN saved' = TRUE /\ pc' = "main_end" /\ UNCHANGED err
            ELSE pc' = "main_start" /\ UNCHANGED <<err, saved>>
    /\ UNCHANGED <<mode, num_points, x, y, i, stream, rngPos, draws, rows,
                   outs, hist, genCalls, otherDraws, report,
                   callPos>>

Visualize ==
    /\ pc = "main_viz"
    /\ LET mx == outs[1].x
           my == outs[1].y
       IN  plotted' = [x |-> [k \in DOMAIN mx |-> 15 * mx[k] + 150 * Den(k)],
                       y |-> [k \in DOMAIN my |-> 15 * my[k] + 50 * Den(k)]]
    /\ \E ok \in BOOLEAN :
          IF ok
            THEN saved' = TRUE /\ pc' = "main_end" /\ UNCHANGED err
            ELSE err' = "OSError" /\ pc' = "raised" /\ UNCHANGED saved
    /\ UNCHANGED <<mode, num_points, x, y, i, stream, rngPos, draws, rows,
                   outs, hist, genCalls, otherDraws, report,
                   callPos>>

\* main, lines 231-233: the closing messages
MainEnd ==
    /\ pc = "main_end"
    /\ pc' = "done"
    /\ UNCHANGED <<mode, num_points, x, y, i, stream, rngPos, draws, rows,
                   outs, hist, err, genCalls, otherDraws, report, plotted,
                   saved,
                   callPos>>

\* ------------------------------------------------------ specifications ---
Next ==
    \/ MainCall
    \/ ImportCall
    \/ Reseed
    \/ OtherDraw
    \/ GenInit
    \/ LoopStep
    \/ Return
    \/ PrintInfo
    \/ Visualize
    \/ MainEnd

Spec == Init /\ [][Next]_vars

\* the interpreter runs the next statement of the program; the caller's
\* and other code's steps between two calls are under no obligation
FairSpec ==
    Spec /\ WF_vars(GenInit) /\ WF_vars(LoopStep) /\ WF_vars(Return)
         /\ WF_vars(MainCall) /\ WF_vars(PrintInfo) /\ WF_vars(Visualize)
         /\ WF_vars(MainEnd)

TypeOK ==
    /\ mode \in {"main", "import"}
    /\ pc \in {"main_start", "idle", "between", "gen_init", "gen_loop",
               "main_info", "main_viz", "main_end", "done", "raised"}
    /\ err \in {None, "ValueError", "IndexError", "OSError"}
    /\ rngPos \in 0..MaxStream
    /\ Len(stream) <= MaxStream

\* ------------------------------------------------------------- claims ---
\* the calls that have returned
Returned == 1..Len(outs)

GenPcs == {"gen_init", "gen_loop"}

\* the first row, in table order, whose cumulative upper bound exceeds r
FirstRow(r) ==
    CHOOSE m \in 1..4 : Thresholds[m] > r /\ \A j \in 1..(m - 1) : Thresholds[j] <= r

\* the points 1..Len(ds) of the arrays ax, ay are the images of their
\* predecessors under the table row the draw selects
AffineChain(ax, ay, ds) ==
    \A k \in 1..Len(ds) :
        LET t == Table[FirstRow(ds[k])]
        IN  /\ k \in DOMAIN ax
            /\ ax[k] = t.a * ax[k - 1] + t.b * ay[k - 1] + t.e * Den(k - 1)
            /\ ay[k] = t.c * ax[k - 1] + t.d * ay[k - 1] + t.f * Den(k - 1)

\* every point of the arrays lies in the square [-10, 10] x [-10, 10]
InBox(ax, ay) ==
    \A k \in DOMAIN ax :
        Abs(ax[k]) <= 10 * Den(k) /\ Abs(ay[k]) <= 10 * Den(k)

\* C1: every call with N >= 1 returns (it does not raise), and what it
\* returns is exactly N points, indices 0..N-1, the point at index 0 being
\* (0,0); for N = 1 this is the single point (0,0).
C1_ExactlyNPoints ==
    /\ \A k \in Returned :
          /\ hist[k].n >= 1
          /\ DOMAIN outs[k].x = 0..(hist[k].n - 1)
          /\ DOMAIN outs[k].y = 0..(hist[k].n - 1)
          /\ outs[k].x[0] = 0
          /\ outs[k].y[0] = 0
    /\ (pc = "raised" /\ mode = "import") => num_points < 1

C1_Witness ==
    /\ Len(outs) = 2
    /\ hist[1].n = 1
    /\ hist[2].n = 3
    /\ outs[2].y[2] # 0

\* C2: a call with N < 1 fails with an invalid-argument error (Python's
\* ValueError), no sequence is returned and no draw is consumed.
C2_InvalidArgument ==
    (pc = "raised" /\ mode = "import") =>
        /\ num_points < 1
        /\ err = "ValueError"
        /\ Len(outs) = genCalls - 1
        /\ rngPos = callPos

\* C3: for every index k >= 1, generated or returned, point k is the image
\* of point k-1 under the affine map of the first table row whose
\* cumulative bound strictly exceeds draw k; a draw equal to a bound
\* selects the next row.
C3_AffineImage ==
    /\ pc = "gen_loop" => AffineChain(x, y, draws)
    /\ \A k \in Returned : AffineChain(outs[k].x, outs[k].y, hist[k].draws)
    /\ FirstRow(10) = 2 /\ FirstRow(860) = 3 /\ FirstRow(930) = 4

C3_Witness ==
    \E k \in Returned : hist[k].draws = <<10, 860, 930>>

\* C4: two calls with the same N that receive the same draws return
\* sequences that are equal at every index.
C4_Deterministic ==
    \A a, b \in Returned :
        (hist[a].n = hist[b].n /\ hist[a].draws = hist[b].draws) =>
            outs[a] = outs[b]

C4_Witness ==
    /\ Len(outs) = 2
    /\ hist[1].n = 3
    /\ hist[2].n = 3
    /\ hist[1].draws = hist[2].draws
    /\ hist[1].draws = <<500, 930>>

RowsContaining(r) ==
    {m \in 1..4 : (IF m = 1 THEN 0 ELSE Thresholds[m - 1]) <= r /\ r < Thresholds[m]}

\* the draws and the rows applied, of the running call and of the calls
\* that returned
Applied ==
    {<<draws[k], rows[k]>> : k \in 1..Len(draws)}
        \cup UNION {{<<hist[c].draws[k], hist[c].rows[k]>> : k \in 1..Len(hist[c].draws)} : c \in Returned}

\* C6: the thresholds 0.01, 0.86, 0.93, 1.00 are non-decreasing and end at
\* 1.0; every draw lies in the interval of exactly one row, that row is the
\* one applied, and equal draws select equal rows whatever the index and
\* the previous point.
C6_ExactlyOneRow ==
    /\ Thresholds = <<10, 860, 930, 1000>>
    /\ \A m \in 1..3 : Thresholds[m] <= Thresholds[m + 1]
    /\ Len(rows) = Len(draws)
    /\ \A c \in Returned : Len(hist[c].rows) = Len(hist[c].draws)
    /\ \A p \in Applied : RowsContaining(p[1]) = {p[2]}
    /\ \A p, q \in Applied : p[1] = q[1] => p[2] = q[2]

C6_Witness ==
    /\ Len(outs) = 2
    /\ hist[1].draws = <<0, 860, 999>>
    /\ hist[2].draws = <<860, 999>>

C8_Safety ==
    /\ pc = "gen_loop" =>
          /\ i <= num_points
          /\ Len(draws) = i - 1
          /\ rngPos = callPos + i - 1
    /\ \A k \in Returned : Len(hist[k].draws) = hist[k].n - 1
    /\ err \in {"ValueError", "IndexError"} => (rngPos = callPos /\ draws = << >>)

C8_TerminatesWithNMinus1Draws ==
    /\ []C8_Safety
    /\ (pc = "gen_init" /\ num_points >= 1) ~>
          (pc \in {"main_info", "between", "done"} /\ Len(draws) = num_points - 1)

C8_Witness ==
    /\ pc = "between"
    /\ num_points = 4
    /\ rngPos = callPos + 3
    /\ hist[1].draws = <<930, 0, 10>>

\* C9: in a run of main the generator is called once; the report and the
\* renderer start only after it has returned all N points; a failure of
\* the renderer ends the run with the error raised, and the generator is
\* not called again.
C9_GeneratedOnce ==
    mode = "main" =>
        /\ genCalls <= 1
        /\ pc \in {"main_info", "main_viz", "main_end", "done", "raised"} =>
              /\ genCalls = 1
              /\ Len(outs) = 1
              /\ DOMAIN outs[1].x = 0..(num_points - 1)
              /\ DOMAIN outs[1].y = 0..(num_points - 1)
        /\ (report # NoReport \/ plotted # NoPlot) => Len(outs) = 1
        /\ plotted # NoPlot => report # NoReport
        /\ err # None => (err = "OSError" /\ pc = "raised" /\ plotted # NoPlot)
        /\ (plotted # NoPlot /\ ~saved) => (pc = "raised" /\ err = "OSError")

C9_Witness ==
    /\ mode = "main"
    /\ pc = "raised"
    /\ err = "OSError"
    /\ genCalls = 1
    /\ num_points = 3

\* C10: a returned sequence is never modified afterwards, by the report,
\* by the renderer (whether or not the image is saved) or by a later call.
C10_ReturnedNeverModified ==
    [][\A k \in Returned : k \in 1..Len(outs') /\ outs'[k] = outs[k]]_vars

C10_Witness ==
    /\ mode = "main"
    /\ plotted # NoPlot
    /\ report # NoReport
    /\ num_points = 3
    /\ plotted.y[2] # outs[1].y[2]
    /\ outs[1].y[2] > 0

====
